---- MODULE Spec2Model ----
(***************************************************************************)
(* Model of the concurrent fan-out aggregation of src/main.go:             *)
(* multiWeatherProvider.temperature launches one goroutine per provider,   *)
(* each goroutine sends its reading on the buffered channel temps or its   *)
(* error on the buffered channel errs, and the caller receives len(w)      *)
(* events with a select, returning on the first error or, after len(w)     *)
(* readings, their mean.                                                   *)
(***************************************************************************)
EXTENDS Integers, Sequences, FiniteSets, TLC

(* ---------------------------- bounds ----------------------------------- *)

\* largest provider set of a call
MaxN == 3

\* significand width of the modelled binary floating point (float64 has 53)
MantBits == 3

\* largest provider set of a call when two calls run at once
MaxNTwo == 2

\* number of aggregation calls (HTTP requests) the model has identifiers for
NumCalls == 2

Calls == 1..NumCalls

(* ------------------------ float64 arithmetic --------------------------- *)
\* A float is a record: cls "num" with n its value in units of the least
\* representable step, cls "nan" for NaN, cls "inf" for an infinity of
\* sign n.  Finite values carry MantBits significant bits; results are
\* rounded to nearest, ties to even, as IEEE 754 binary64 arithmetic does.

RECURSIVE Pow2(_)
Pow2(n) == IF n <= 0 THEN 1 ELSE 2 * Pow2(n - 1)

RECURSIVE BitLen(_)
BitLen(x) == IF x <= 0 THEN 0 ELSE 1 + BitLen(x \div 2)

Abs(x) == IF x < 0 THEN -x ELSE x

Sign(x) == IF x < 0 THEN -1 ELSE 1

\* num/den (den > 0) rounded to the nearest representable value, ties to even
RoundQ(num, den) ==
    LET a    == Abs(num)
        q    == a \div den
        e    == IF q < Pow2(MantBits) THEN 0 ELSE BitLen(q) - MantBits
        D    == den * Pow2(e)
        k    == a \div D
        r    == a % D
        kk   == IF 2 * r < D THEN k
                ELSE IF 2 * r > D THEN k + 1
                ELSE IF k % 2 = 0 THEN k ELSE k + 1
    IN  Sign(num) * kk * Pow2(e)

F(n) == [cls |-> "num", n |-> n]

NaN == [cls |-> "nan", n |-> 0]

Inf(s) == [cls |-> "inf", n |-> s]

\* an integer is a float64 value of the model when rounding leaves it alone
Representable(n) == RoundQ(n, 1) = n

\* sum += temp
FAdd(a, b) ==
    IF a.cls = "num" /\ b.cls = "num" THEN F(RoundQ(a.n + b.n, 1))
    ELSE IF a.cls = "nan" \/ b.cls = "nan" THEN NaN
    ELSE IF a.cls = "inf" /\ b.cls = "inf" /\ a.n # b.n THEN NaN
    ELSE IF a.cls = "inf" THEN a ELSE b

\* a * b
FMul(a, b) ==
    IF a.cls = "num" /\ b.cls = "num" THEN F(RoundQ(a.n * b.n, 1)) ELSE NaN

\* FahrenheitToCelsius: (input_num - 32) * 5 / 9
FahrenheitToCelsius(input) ==
    LET diff == FAdd(input, F(-32))
        prod == FMul(diff, F(5))
    IN  IF prod.cls = "num" THEN F(RoundQ(prod.n, 9)) ELSE prod

\* a division by one more than the number of providers
FDiv_OffByOne(a, len) == F(RoundQ(a.n, len + 1))

\* sum / float64(len(w))
FDiv(a, len) ==
    IF a.cls # "num" THEN a
    ELSE IF len = 0 THEN (IF a.n = 0 THEN NaN ELSE Inf(Sign(a.n)))
    ELSE F(RoundQ(a.n, len))

(* ------------------------- provider contract --------------------------- *)

\* the nil error
nil == "nil"

\* the errors a provider's query can fail with
Errs == {"e1", "e2"}

\* the readings a provider's query can succeed with: a negative one, a small
\* one and one with the largest exponent at which adding the small one is a
\* tie of the rounding
Vals == {F(-3), F(2), F(2 * Pow2(MantBits))}

\* what weatherProvider.temperature(city) can return: (k, nil) or (0, err)
Results == {[k |-> v, err |-> nil] : v \in Vals}
             \cup {[k |-> F(0), err |-> e] : e \in Errs}

(* ------------------------------ state ---------------------------------- *)

VARIABLES
    incoming,   \* calls of multiWeatherProvider.temperature still to be made
    pc,         \* pc[c]: where call c is: "idle", "launch", "loop", "done"
    w,          \* w[c]: the receiver, the provider list of call c
    launched,   \* launched[c]: iterations of the range loop done so far
    task,       \* task[c][j]: goroutine of provider j: its pc, its k, err,
                \* the log of the channels it has sent on, when it has
                \* sent on errs, the rank ord of its send among the sends on
                \* errs of its call, and the log of the cities it has
                \* queried its provider for
    temps,      \* temps[c]: contents of the buffered channel temps
    errs,       \* errs[c]: contents of the buffered channel errs
    sum,        \* sum[c]
    i,          \* i[c]: the receive loop's counter
    ret,        \* ret[c]: the returned (float64, error)
    recvd,      \* recvd[c]: log of the events call c received, in order
    hpc,        \* hpc[c]: where the handler weather of request c is: "none"
                \* when call c is not made by weather, "call", "served"
    resp,       \* resp[c]: what weather has written to the ResponseWriter
    lookup      \* a lookup of coordinates and its caller

vars == <<incoming, pc, w, launched, task, temps, errs, sum, i, ret, recvd,
          hpc, resp, lookup>>


\* len(w)
LenW(c) == Len(w[c])

\* channels made with room for a single event
Cap_One(c) == 1

\* cap(temps) and cap(errs): make(chan ..., len(w))
Cap(c) == Len(w[c])

\* the sends on errs[c] so far
NumErrSent(c) == Cardinality({j \in DOMAIN task[c] : task[c][j].ord > 0})

\* the city argument of call c: every call asks for a city of its own
City(c) == IF c = 1 THEN "London" ELSE IF c = 2 THEN "Paris" ELSE "Oslo"

NoTask == [pc |-> "none", k |-> F(0), err |-> nil, sends |-> <<>>, ord |-> 0,
           asked |-> <<>>]

NoRet == [value |-> F(0), err |-> nil]

InitCalls(reqs) ==
    /\ incoming = reqs
    /\ pc = [c \in Calls |-> "idle"]
    /\ w = [c \in Calls |-> <<>>]
    /\ launched = [c \in Calls |-> 0]
    /\ task = [c \in Calls |-> <<>>]
    /\ temps = [c \in Calls |-> <<>>]
    /\ errs = [c \in Calls |-> <<>>]
    /\ sum = [c \in Calls |-> F(0)]
    /\ i = [c \in Calls |-> 0]
    /\ ret = [c \in Calls |-> NoRet]
    /\ recvd = [c \in Calls |-> <<>>]
    /\ hpc = [c \in Calls |-> "none"]
    /\ resp = [c \in Calls |-> <<>>]

\* no lookup of coordinates is going on
NoLookup == [pc |-> "none"]

\* one request in flight
Init == InitCalls({1}) /\ lookup = NoLookup

(* ----------------------------- actions --------------------------------- *)

\* the call is made on a provider list of n providers; the two channels are
\* made with capacity len(w)
MakeChannels(c, n) ==
    /\ c \in incoming
    /\ pc[c] = "idle"
    /\ incoming' = incoming \ {c}
    /\ w' = [w EXCEPT ![c] = [j \in 1..n |-> j]]
    /\ task' = [task EXCEPT ![c] = [j \in 1..n |-> NoTask]]
    /\ temps' = [temps EXCEPT ![c] = <<>>]
    /\ errs' = [errs EXCEPT ![c] = <<>>]
    /\ pc' = [pc EXCEPT ![c] = "launch"]
    /\ UNCHANGED <<launched, sum, i, ret, recvd>>

\* the call made by a caller that is not the handler weather
Enter(c, n) == MakeChannels(c, n) /\ UNCHANGED <<hpc, resp, lookup>>

\* one iteration of "for _, provider := range w": go func(p) {...}(provider)
Spawn(c) ==
    /\ pc[c] = "launch"
    /\ launched[c] < LenW(c)
    /\ launched' = [launched EXCEPT ![c] = @ + 1]
    /\ task' = [task EXCEPT ![c][launched[c] + 1].pc = "running"]
    /\ UNCHANGED <<incoming, pc, w, temps, errs, sum, i, ret, recvd, hpc, resp, lookup>>

\* the range loop is over: sum := 0.0 and i := 0
InitSum(c) ==
    /\ pc[c] = "launch"
    /\ launched[c] = LenW(c)
    /\ sum' = [sum EXCEPT ![c] = F(0)]
    /\ i' = [i EXCEPT ![c] = 0]
    /\ pc' = [pc EXCEPT ![c] = "loop"]
    /\ UNCHANGED <<incoming, w, launched, task, temps, errs, ret, recvd, hpc, resp, lookup>>

\* a goroutine that queries its provider again when the query failed
Query_Retry(c, j, r) ==
    /\ j \in DOMAIN task[c]
    /\ \/ task[c][j].pc = "running"
       \/ task[c][j].pc = "queried" /\ task[c][j].err # nil /\ Len(task[c][j].asked) < 2
    /\ task' = [task EXCEPT ![c][j] = [@ EXCEPT !.pc = "queried", !.k = r.k, !.err = r.err,
                                                 !.asked = Append(@, City(c))]]
    /\ UNCHANGED <<incoming, pc, w, launched, temps, errs, sum, i, ret, recvd, hpc, resp, lookup>>

\* goroutine j: k, err := p.temperature(city) returns r
Query(c, j, r) ==
    /\ j \in DOMAIN task[c]
    /\ task[c][j].pc = "running"
    /\ task' = [task EXCEPT ![c][j] = [@ EXCEPT !.pc = "queried", !.k = r.k, !.err = r.err,
                                                 !.asked = Append(@, City(c))]]
    /\ UNCHANGED <<incoming, pc, w, launched, temps, errs, sum, i, ret, recvd, hpc, resp, lookup>>

\* a goroutine that, without the return, goes on to send k after the error
SendErr_FallThrough(c, j) ==
    /\ j \in DOMAIN task[c]
    /\ task[c][j].pc = "queried"
    /\ task[c][j].err # nil
    /\ Len(errs[c]) < Cap(c)
    /\ Len(temps[c]) < Cap(c)
    /\ errs' = [errs EXCEPT ![c] = Append(@, task[c][j].err)]
    /\ temps' = [temps EXCEPT ![c] = Append(@, task[c][j].k)]
    /\ task' = [task EXCEPT ![c][j].pc = "exited",
                             ![c][j].sends = @ \o <<"errs", "temps">>,
                             ![c][j].ord = NumErrSent(c) + 1]
    /\ UNCHANGED <<incoming, pc, w, launched, sum, i, ret, recvd, hpc, resp, lookup>>

\* goroutine j: if err != nil { errs <- err; return }
SendErr(c, j) ==
    /\ j \in DOMAIN task[c]
    /\ task[c][j].pc = "queried"
    /\ task[c][j].err # nil
    /\ Len(errs[c]) < Cap(c)
    /\ errs' = [errs EXCEPT ![c] = Append(@, task[c][j].err)]
    /\ task' = [task EXCEPT ![c][j].pc = "exited",
                             ![c][j].sends = Append(@, "errs"),
                             ![c][j].ord = NumErrSent(c) + 1]
    /\ UNCHANGED <<incoming, pc, w, launched, temps, sum, i, ret, recvd, hpc, resp, lookup>>

\* a goroutine that sends on a channel temps shared by all the calls
SendTemp_Shared(c, j) ==
    /\ j \in DOMAIN task[c]
    /\ task[c][j].pc = "queried"
    /\ task[c][j].err = nil
    /\ Len(temps[1]) < Cap(1)
    /\ temps' = [temps EXCEPT ![1] = Append(@, task[c][j].k)]
    /\ task' = [task EXCEPT ![c][j].pc = "exited",
                             ![c][j].sends = Append(@, "temps")]
    /\ UNCHANGED <<incoming, pc, w, launched, errs, sum, i, ret, recvd, hpc, resp, lookup>>

\* goroutine j: temps <- k
SendTemp(c, j) ==
    /\ j \in DOMAIN task[c]
    /\ task[c][j].pc = "queried"
    /\ task[c][j].err = nil
    /\ Len(temps[c]) < Cap(c)
    /\ temps' = [temps EXCEPT ![c] = Append(@, task[c][j].k)]
    /\ task' = [task EXCEPT ![c][j].pc = "exited",
                             ![c][j].sends = Append(@, "temps")]
    /\ UNCHANGED <<incoming, pc, w, launched, errs, sum, i, ret, recvd, hpc, resp, lookup>>

\* a receive of temps that assigns the reading instead of adding it
RecvTemp_Overwrite(c) ==
    /\ pc[c] = "loop"
    /\ i[c] < LenW(c)
    /\ temps[c] # <<>>
    /\ sum' = [sum EXCEPT ![c] = Head(temps[c])]
    /\ temps' = [temps EXCEPT ![c] = Tail(@)]
    /\ i' = [i EXCEPT ![c] = @ + 1]
    /\ recvd' = [recvd EXCEPT ![c] = Append(@, [ch |-> "temps", v |-> Head(temps[c])])]
    /\ UNCHANGED <<incoming, pc, w, launched, task, errs, ret, hpc, resp, lookup>>

\* a receive of temps that leaves the first reading out of the sum
RecvTemp_SkipFirst(c) ==
    /\ pc[c] = "loop"
    /\ i[c] < LenW(c)
    /\ temps[c] # <<>>
    /\ sum' = [sum EXCEPT ![c] = IF i[c] = 0 THEN @ ELSE FAdd(@, Head(temps[c]))]
    /\ temps' = [temps EXCEPT ![c] = Tail(@)]
    /\ i' = [i EXCEPT ![c] = @ + 1]
    /\ recvd' = [recvd EXCEPT ![c] = Append(@, [ch |-> "temps", v |-> Head(temps[c])])]
    /\ UNCHANGED <<incoming, pc, w, launched, task, errs, ret, hpc, resp, lookup>>

\* select case temp := <-temps: sum += temp
RecvTemp(c) ==
    /\ pc[c] = "loop"
    /\ i[c] < LenW(c)
    /\ temps[c] # <<>>
    /\ sum' = [sum EXCEPT ![c] = FAdd(@, Head(temps[c]))]
    /\ temps' = [temps EXCEPT ![c] = Tail(@)]
    /\ i' = [i EXCEPT ![c] = @ + 1]
    /\ recvd' = [recvd EXCEPT ![c] = Append(@, [ch |-> "temps", v |-> Head(temps[c])])]
    /\ UNCHANGED <<incoming, pc, w, launched, task, errs, ret, hpc, resp, lookup>>

\* a receive of errs that counts the event and goes on with the loop
RecvErr_Skip(c) ==
    /\ pc[c] = "loop"
    /\ i[c] < LenW(c)
    /\ errs[c] # <<>>
    /\ errs' = [errs EXCEPT ![c] = Tail(@)]
    /\ i' = [i EXCEPT ![c] = @ + 1]
    /\ recvd' = [recvd EXCEPT ![c] = Append(@, [ch |-> "errs", v |-> Head(errs[c])])]
    /\ UNCHANGED <<incoming, pc, w, launched, task, temps, sum, ret, hpc, resp, lookup>>

\* a receive of errs that returns only after every goroutine has exited
RecvErr_WaitAll(c) ==
    /\ pc[c] = "loop"
    /\ i[c] < LenW(c)
    /\ errs[c] # <<>>
    /\ \A j \in DOMAIN task[c] : task[c][j].pc = "exited"
    /\ ret' = [ret EXCEPT ![c] = [value |-> F(0), err |-> Head(errs[c])]]
    /\ errs' = [errs EXCEPT ![c] = Tail(@)]
    /\ recvd' = [recvd EXCEPT ![c] = Append(@, [ch |-> "errs", v |-> Head(errs[c])])]
    /\ pc' = [pc EXCEPT ![c] = "done"]
    /\ UNCHANGED <<incoming, w, launched, task, temps, sum, i, hpc, resp, lookup>>

\* a receive of errs that returns the running sum with the error
RecvErr_ReturnSum(c) ==
    /\ pc[c] = "loop"
    /\ i[c] < LenW(c)
    /\ errs[c] # <<>>
    /\ ret' = [ret EXCEPT ![c] = [value |-> sum[c], err |-> Head(errs[c])]]
    /\ errs' = [errs EXCEPT ![c] = Tail(@)]
    /\ recvd' = [recvd EXCEPT ![c] = Append(@, [ch |-> "errs", v |-> Head(errs[c])])]
    /\ pc' = [pc EXCEPT ![c] = "done"]
    /\ UNCHANGED <<incoming, w, launched, task, temps, sum, i, hpc, resp, lookup>>

\* a receive of errs that takes the error sent last
RecvErr_Last(c) ==
    /\ pc[c] = "loop"
    /\ i[c] < LenW(c)
    /\ errs[c] # <<>>
    /\ ret' = [ret EXCEPT ![c] = [value |-> F(0), err |-> errs[c][Len(errs[c])]]]
    /\ errs' = [errs EXCEPT ![c] = SubSeq(@, 1, Len(@) - 1)]
    /\ recvd' = [recvd EXCEPT ![c] = Append(@, [ch |-> "errs", v |-> errs[c][Len(errs[c])]])]
    /\ pc' = [pc EXCEPT ![c] = "done"]
    /\ UNCHANGED <<incoming, w, launched, task, temps, sum, i, hpc, resp, lookup>>

\* select case err := <-errs: return 0, err
RecvErr(c) ==
    /\ pc[c] = "loop"
    /\ i[c] < LenW(c)
    /\ errs[c] # <<>>
    /\ ret' = [ret EXCEPT ![c] = [value |-> F(0), err |-> Head(errs[c])]]
    /\ errs' = [errs EXCEPT ![c] = Tail(@)]
    /\ recvd' = [recvd EXCEPT ![c] = Append(@, [ch |-> "errs", v |-> Head(errs[c])])]
    /\ pc' = [pc EXCEPT ![c] = "done"]
    /\ UNCHANGED <<incoming, w, launched, task, temps, sum, i, hpc, resp, lookup>>

\* a loop that stops one event short
ReturnMean_Early(c) ==
    /\ pc[c] = "loop"
    /\ i[c] >= LenW(c) - 1
    /\ ret' = [ret EXCEPT ![c] = [value |-> FDiv(sum[c], LenW(c)), err |-> nil]]
    /\ pc' = [pc EXCEPT ![c] = "done"]
    /\ UNCHANGED <<incoming, w, launched, task, temps, errs, sum, i, recvd, hpc, resp, lookup>>

\* a loop that waits for one event more than there are providers
ReturnMean_OneMore(c) ==
    /\ pc[c] = "loop"
    /\ i[c] = LenW(c) + 1
    /\ ret' = [ret EXCEPT ![c] = [value |-> FDiv(sum[c], LenW(c)), err |-> nil]]
    /\ pc' = [pc EXCEPT ![c] = "done"]
    /\ UNCHANGED <<incoming, w, launched, task, temps, errs, sum, i, recvd, hpc, resp, lookup>>

\* the loop ran len(w) times: return sum / float64(len(w)), nil
ReturnMean(c) ==
    /\ pc[c] = "loop"
    /\ i[c] = LenW(c)
    /\ ret' = [ret EXCEPT ![c] = [value |-> FDiv(sum[c], LenW(c)), err |-> nil]]
    /\ pc' = [pc EXCEPT ![c] = "done"]
    /\ UNCHANGED <<incoming, w, launched, task, temps, errs, sum, i, recvd, hpc, resp, lookup>>

\* the steps of the caller of call c
Aggregator(c) ==
    \/ \E n \in 0..MaxN : Enter(c, n)
    \/ Spawn(c)
    \/ InitSum(c)
    \/ RecvTemp(c)
    \/ RecvErr(c)
    \/ ReturnMean(c)

\* the steps of goroutine j of call c
Goroutine(c, j) ==
    \/ \E r \in Results : Query(c, j, r)
    \/ SendErr(c, j)
    \/ SendTemp(c, j)

\* the steps of the goroutines of call c
Provider(c) == \E j \in 1..MaxN : Goroutine(c, j)

(* ------------------------- the handler weather -------------------------- *)

\* the providers weather puts in mw
HandlerProviders == 3

StatusOK == 200

StatusInternalServerError == 500

\* weather: mw := multiWeatherProvider{...}; temp, err := mw.temperature(city)
Weather(c) ==
    /\ MakeChannels(c, HandlerProviders)
    /\ hpc' = [hpc EXCEPT ![c] = "call"]
    /\ UNCHANGED <<resp, lookup>>

\* a handler that, without the return, goes on to encode the temperature
RespondError_FallThrough(c) ==
    /\ hpc[c] = "call"
    /\ pc[c] = "done"
    /\ ret[c].err # nil
    /\ resp' = [resp EXCEPT ![c] = @ \o
                 << [status |-> StatusInternalServerError, error |-> ret[c].err],
                    [status |-> StatusInternalServerError, city |-> City(c),
                     temp |-> ret[c].value] >>]
    /\ hpc' = [hpc EXCEPT ![c] = "served"]
    /\ UNCHANGED <<incoming, pc, w, launched, task, temps, errs, sum, i, ret, recvd, lookup>>

\* weather: if err != nil { http.Error(w, err.Error(), 500); return }
RespondError(c) ==
    /\ hpc[c] = "call"
    /\ pc[c] = "done"
    /\ ret[c].err # nil
    /\ resp' = [resp EXCEPT ![c] = Append(@,
                 [status |-> StatusInternalServerError, error |-> ret[c].err])]
    /\ hpc' = [hpc EXCEPT ![c] = "served"]
    /\ UNCHANGED <<incoming, pc, w, launched, task, temps, errs, sum, i, ret, recvd, lookup>>

\* weather: json.NewEncoder(w).Encode({"city", "temp", "took"}); Encode
\* writes nothing when temp is not a number JSON can carry
RespondOK(c) ==
    /\ hpc[c] = "call"
    /\ pc[c] = "done"
    /\ ret[c].err = nil
    /\ resp' = [resp EXCEPT ![c] =
                 IF ret[c].value.cls = "num"
                 THEN Append(@, [status |-> StatusOK, city |-> City(c),
                                 temp |-> ret[c].value])
                 ELSE @]
    /\ hpc' = [hpc EXCEPT ![c] = "served"]
    /\ UNCHANGED <<incoming, pc, w, launched, task, temps, errs, sum, i, ret, recvd, lookup>>

\* the steps of the handler weather of request c
Handler(c) == Weather(c) \/ RespondError(c) \/ RespondOK(c)

Next == \E c \in Calls : Aggregator(c) \/ Provider(c) \/ Handler(c)

(* ---------------- openWeatherMap.coordinates and its callers ------------ *)

\* the callers of openWeatherMap{}.coordinates(city): forecastIo.temperature
\* and the handler coordinates
Callers == {"forecastIo", "coordinates"}

Cities == {"London", "Paris"}

\* Coord{}
ZeroCoord == [Lon |-> F(0), Lat |-> F(0)]

\* the coordinates the response of openweathermap can carry
Coords == {[Lon |-> lon, Lat |-> lat] : lon \in {F(-3), F(2), F(7)}, lat \in {F(2), F(5)}}

\* the temperatures, in Fahrenheit, the response of forecast.io can carry
Fahrenheits == {F(-40), F(32), F(40)}

\* caller has just called openWeatherMap{}.coordinates(city); cause is what
\* has made the lookup fail, "no" when nothing has; coord, err is what
\* coordinates returns, k, kerr what forecastIo.temperature returns and resp
\* what the handler coordinates writes
StartLookup(caller, city) ==
    [pc |-> "get", caller |-> caller, city |-> city, cause |-> "no",
     coord |-> ZeroCoord, err |-> nil, k |-> F(0), kerr |-> nil, resp |-> <<>>]

\* a lookup is made by one of the callers for one of the cities
CoordInit ==
    /\ InitCalls({})
    /\ lookup \in {StartLookup(caller, city) : caller \in Callers, city \in Cities}

\* the main model's state, which a lookup does not touch
mvars == <<incoming, pc, w, launched, task, temps, errs, sum, i, ret, recvd, hpc, resp>>

\* coordinates: resp, err := http.Get(...); if err != nil { return Coord{}, nil }
CoordGet(e) ==
    /\ lookup.pc = "get"
    /\ lookup' = IF e # nil
                 THEN [lookup EXCEPT !.pc = "returned", !.cause = "get",
                                     !.coord = ZeroCoord, !.err = nil]
                 ELSE [lookup EXCEPT !.pc = "decode"]
    /\ UNCHANGED mvars

\* coordinates: if err := json.NewDecoder(resp.Body).Decode(&d); err != nil
\* { return Coord{}, nil }; return Coord{d.Coord.Lon, d.Coord.Lat}, nil
CoordDecode(e, d) ==
    /\ lookup.pc = "decode"
    /\ lookup' = IF e # nil
                 THEN [lookup EXCEPT !.pc = "returned", !.cause = "decode",
                                     !.coord = ZeroCoord, !.err = nil]
                 ELSE [lookup EXCEPT !.pc = "returned",
                                     !.coord = [Lon |-> d.Lon, Lat |-> d.Lat],
                                     !.err = nil]
    /\ UNCHANGED mvars

\* forecastIo.temperature: coord, err := coordinates(city); if err != nil
\* { return 0, err }; resp, err := http.Get(url); if err != nil { return 0, err }
ForecastGet(e) ==
    /\ lookup.pc = "returned"
    /\ lookup.caller = "forecastIo"
    /\ lookup' = IF lookup.err # nil
                 THEN [lookup EXCEPT !.pc = "done", !.k = F(0), !.kerr = lookup.err]
                 ELSE IF e # nil
                 THEN [lookup EXCEPT !.pc = "done", !.k = F(0), !.kerr = e]
                 ELSE [lookup EXCEPT !.pc = "fdecode"]
    /\ UNCHANGED mvars

\* forecastIo.temperature: if err := Decode(&d); err != nil { return 0, err };
\* return FahrenheitToCelsius(d.Currently.Fahrenheit), nil
ForecastDecode(e, f) ==
    /\ lookup.pc = "fdecode"
    /\ lookup' = IF e # nil
                 THEN [lookup EXCEPT !.pc = "done", !.k = F(0), !.kerr = e]
                 ELSE [lookup EXCEPT !.pc = "done", !.k = FahrenheitToCelsius(f),
                                     !.kerr = nil]
    /\ UNCHANGED mvars

\* the handler coordinates: lat, err := coordinates(city); if err != nil
\* { http.Error(w, err.Error(), 500); return }; Encode({"city", "temp": lat})
CoordRespond ==
    /\ lookup.pc = "returned"
    /\ lookup.caller = "coordinates"
    /\ lookup' = IF lookup.err # nil
                 THEN [lookup EXCEPT !.pc = "done", !.resp = Append(@,
                         [status |-> StatusInternalServerError, error |-> lookup.err])]
                 ELSE [lookup EXCEPT !.pc = "done", !.resp = Append(@,
                         [status |-> StatusOK, city |-> lookup.city,
                          temp |-> lookup.coord])]
    /\ UNCHANGED mvars

CoordNext ==
    \/ \E e \in Errs \cup {nil} : CoordGet(e)
    \/ \E e \in Errs \cup {nil} : \E d \in Coords : CoordDecode(e, d)
    \/ \E e \in Errs \cup {nil} : ForecastGet(e)
    \/ \E e \in Errs \cup {nil} : \E f \in Fahrenheits : ForecastDecode(e, f)
    \/ CoordRespond

CoordSpec == CoordInit /\ [][CoordNext]_vars

Spec == Init /\ [][Next]_vars

(* ---------------------- two calls at the same time ---------------------- *)

\* two requests in flight
InitTwo == InitCalls({1, 2}) /\ lookup = NoLookup

\* what the providers answer for the city of call c: another city, another
\* reading and another error
ResultsTwo(c) ==
    IF c = 1 THEN {[k |-> F(2), err |-> nil], [k |-> F(0), err |-> "e1"]}
             ELSE {[k |-> F(-3), err |-> nil], [k |-> F(0), err |-> "e2"]}

AggregatorTwo(c) ==
    \/ \E n \in 0..MaxNTwo : Enter(c, n)
    \/ Spawn(c)
    \/ InitSum(c)
    \/ RecvTemp(c)
    \/ RecvErr(c)
    \/ ReturnMean(c)

ProviderTwo(c) ==
    \E j \in 1..MaxNTwo :
        \/ \E r \in ResultsTwo(c) : Query(c, j, r)
        \/ SendErr(c, j)
        \/ SendTemp(c, j)

NextTwo == \E c \in Calls : AggregatorTwo(c) \/ ProviderTwo(c)

SpecTwo == InitTwo /\ [][NextTwo]_vars

\* the caller is scheduled whenever it can run; a provider's query may never
\* return
AggFairSpec == Spec /\ \A c \in Calls : WF_vars(Aggregator(c) \/ Handler(c))

\* the caller and every goroutine are scheduled whenever they can run, and
\* every provider's query returns
FairSpec ==
    /\ Spec
    /\ \A c \in Calls : WF_vars(Aggregator(c) \/ Handler(c))
    /\ \A c \in Calls : \A j \in 1..MaxN : WF_vars(Goroutine(c, j))

(* --------------------- vocabulary of the properties -------------------- *)

\* the calls that have been made
Made == Calls \ incoming

Done(c) == pc[c] = "done"

Succeeded(c) == Done(c) /\ ret[c].err = nil

Failed(c) == Done(c) /\ ret[c].err # nil

\* goroutine j's query has returned
Completed(c, j) == task[c][j].pc \in {"queried", "exited"}

\* goroutine j's query has returned an error
TaskFailed(c, j) == Completed(c, j) /\ task[c][j].err # nil

SomeFailed(c) == \E j \in DOMAIN task[c] : TaskFailed(c, j)

\* every provider's query has returned a reading
AllOk(c) == \A j \in DOMAIN task[c] : Completed(c, j) /\ task[c][j].err = nil

\* v1..vN: the readings in the order of the provider list
Readings(c) == [j \in DOMAIN task[c] |-> task[c][j].k]

\* the readings in the order the caller received them
RecvdTemps(c) ==
    LET idx == {k \in DOMAIN recvd[c] : recvd[c][k].ch = "temps"}
    IN  [k \in 1..Cardinality(idx) |-> recvd[c][k].v]

Count(seq, v) == Cardinality({k \in DOMAIN seq : seq[k] = v})

SameBag(s, t) == /\ Len(s) = Len(t)
                 /\ \A k \in DOMAIN s : Count(s, s[k]) = Count(t, s[k])

\* the float64 sum of seq, added left to right starting from 0.0
RECURSIVE FSum(_)
FSum(seq) ==
    IF seq = <<>> THEN F(0)
    ELSE FAdd(FSum(SubSeq(seq, 1, Len(seq) - 1)), seq[Len(seq)])

\* the sum of seq in exact arithmetic
RECURSIVE ISum(_)
ISum(seq) ==
    IF seq = <<>> THEN 0
    ELSE ISum(SubSeq(seq, 1, Len(seq) - 1)) + seq[Len(seq)].n

\* no addition of the running sum over seq had to round
ExactAdds(seq) ==
    \A k \in 1..Len(seq) : Representable(ISum(SubSeq(seq, 1, k)))

C2_NoPartialSuccess ==
    /\ [](\A c \in Calls : SomeFailed(c) => ~Succeeded(c))
    /\ \A c \in Calls : SomeFailed(c) ~> Failed(c)

\* a failure returned after N-1 = 2 readings had been received and summed
C2_Witness ==
    \E c \in Made :
        /\ Failed(c) /\ LenW(c) = 3
        /\ i[c] = 2
        /\ Cardinality({j \in 1..3 : TaskFailed(c, j)}) = 1

(* ------------------------------- C3 ------------------------------------ *)
\* some goroutine of call c has sent its error on errs
ErrReported(c) ==
    \E j \in DOMAIN task[c] : \E k \in DOMAIN task[c][j].sends :
        task[c][j].sends[k] = "errs"

\* C3: fail-fast: once an error has been sent on errs, the caller's own
\* steps lead it to return a failure, whether or not the goroutines that
\* are still running ever take another step.
C3_FailFast ==
    \A c \in Calls : ErrReported(c) ~> Failed(c)

\* the failure was returned while another provider's query had not returned
C3_Witness ==
    \E c \in Made :
        /\ Failed(c)
        /\ \E j \in DOMAIN task[c] : task[c][j].pc = "running"
        /\ \E j \in DOMAIN task[c] : task[c][j].pc = "exited" /\ task[c][j].err = nil

(* ------------------------------- C4 ------------------------------------ *)
\* C4: a call on an empty provider list returns a non-nil "no providers"
\* error and never a success.
C4_EmptyRejected ==
    \A c \in Made : (Done(c) /\ LenW(c) = 0) => ret[c].err # nil

(* ------------------------------- C5 ------------------------------------ *)
\* C5: with a single provider p the call returns what p returned: (v, nil)
\* when p returned the reading v, and the error e, unchanged, when p
\* returned e.
C5_PassThrough ==
    \A c \in Made :
        (Done(c) /\ LenW(c) = 1) =>
            /\ Completed(c, 1)
            /\ ret[c] = [value |-> task[c][1].k, err |-> task[c][1].err]

\* the single provider's reading, a negative one, has been returned
C5_Witness ==
    \E c \in Made :
        /\ Done(c) /\ LenW(c) = 1
        /\ task[c][1].err = nil /\ task[c][1].k = F(-3)

(* ------------------------------- C6 ------------------------------------ *)
\* the float64 mean of the readings summed in the order of the provider list
ListOrderMean(c) == FDiv(FSum(Readings(c)), LenW(c))

\* the exact mean of the readings, rounded once to float64
RoundedExactMean(c) == F(RoundQ(ISum(Readings(c)), LenW(c)))

\* C6 as stated: when every provider succeeds the returned value is the same
\* for every arrival order and every order of the provider list: it is the
\* value of the run in which the readings arrive in the order of the list.
C6_OrderIndependent ==
    \A c \in Made :
        (Succeeded(c) /\ LenW(c) >= 1) => ret[c].value = ListOrderMean(c)

\* C6 as amended: when every provider succeeds and no addition of the
\* running sum had to round, the returned value is the exact mean of the
\* readings rounded once to float64, which no reordering of the providers
\* or of the arrivals changes.
C6_OrderIndependentWhenExact ==
    \A c \in Made :
        (Succeeded(c) /\ LenW(c) >= 1 /\ ExactAdds(RecvdTemps(c))) =>
            ret[c].value = RoundedExactMean(c)

\* three readings summed without rounding in their order of arrival, which
\* is not the order of the provider list, where summing in the order of the
\* list would have rounded to another value
C6_Witness ==
    \E c \in Made :
        /\ Succeeded(c) /\ LenW(c) = 3
        /\ ExactAdds(RecvdTemps(c))
        /\ RecvdTemps(c) # Readings(c)
        /\ ret[c].value # ListOrderMean(c)

(* ------------------------------- C7 ------------------------------------ *)
\* C7: a returned failure carries a non-nil error that is the error one of
\* this call's providers returned, unmodified, and the value 0, whatever
\* had been summed before.
C7_FailureVerbatim ==
    \A c \in Made :
        Failed(c) =>
            /\ \E j \in DOMAIN task[c] : TaskFailed(c, j) /\ ret[c].err = task[c][j].err
            /\ ret[c].value = F(0)

\* a failure returned when the running sum was not 0
C7_Witness ==
    \E c \in Made : Failed(c) /\ sum[c] # F(0) /\ i[c] >= 1

(* ------------------------------- C8 ------------------------------------ *)
\* goroutine j is at its channel send and the channel is full
Blocked(c, j) ==
    /\ task[c][j].pc = "queried"
    /\ IF task[c][j].err # nil THEN Len(errs[c]) >= Cap(c)
                               ELSE Len(temps[c]) >= Cap(c)

\* C8: no goroutine is ever blocked at its send, also after the caller has
\* returned and stopped receiving; and once the caller has returned, what
\* the goroutines still send stays in the channels and changes nothing of
\* the result.
C8_NoProducerBlocks ==
    /\ [](\A c \in Calls : \A j \in DOMAIN task[c] : ~Blocked(c, j))
    /\ [][\A c \in Calls : Done(c) =>
            /\ ret'[c] = ret[c] /\ pc'[c] = pc[c]
            /\ Len(temps'[c]) >= Len(temps[c])
            /\ Len(errs'[c]) >= Len(errs[c])]_vars

\* the caller returned on the first error and the two other goroutines
\* delivered afterwards to channels nobody reads
C8_Witness ==
    \E c \in Made :
        /\ Failed(c) /\ LenW(c) = 3 /\ i[c] = 0
        /\ \A j \in 1..3 : task[c][j].pc = "exited"
        /\ Len(temps[c]) + Len(errs[c]) = 2

(* ------------------------------- C9 ------------------------------------ *)
\* C9: a returned success has received exactly N readings and all N
\* queries have returned; a returned call has either all N queries returned
\* with a reading or at least one query failed, so a call none of whose
\* providers fails and one of whose providers never completes never returns.
C9_NeverPartial ==
    \A c \in Made :
        /\ Succeeded(c) =>
            /\ i[c] = LenW(c)
            /\ Len(recvd[c]) = LenW(c)
            /\ \A k \in DOMAIN recvd[c] : recvd[c][k].ch = "temps"
            /\ \A j \in DOMAIN task[c] : task[c][j].pc = "exited"
        /\ Done(c) => (AllOk(c) \/ SomeFailed(c))

\* a success over three providers
C9_Witness ==
    \E c \in Made : Succeeded(c) /\ LenW(c) = 3 /\ Len(recvd[c]) = 3

(* ------------------------------- C10 ----------------------------------- *)
\* the sends goroutine j has done
SendsOf(c, j) == task[c][j].sends

NumExited(c) == Cardinality({j \in DOMAIN task[c] : task[c][j].pc = "exited"})

NumCompleted(c) == Cardinality({j \in DOMAIN task[c] : Completed(c, j)})

\* C10: every goroutine sends once in all, on temps when its query
\* succeeded and on errs otherwise, and not before its query returned; the
\* events buffered in temps and errs plus the events received number no
\* more than the completed queries, which number no more than N; neither
\* channel holds more than its capacity N.
C10_OneEventPerTask ==
    \A c \in Made :
        /\ \A j \in DOMAIN task[c] :
            /\ Len(SendsOf(c, j)) = (IF task[c][j].pc = "exited" THEN 1 ELSE 0)
            /\ \A k \in DOMAIN SendsOf(c, j) :
                 SendsOf(c, j)[k] = (IF task[c][j].err = nil THEN "temps" ELSE "errs")
        /\ Len(temps[c]) + Len(errs[c]) + Len(recvd[c]) = NumExited(c)
        /\ NumExited(c) <= NumCompleted(c)
        /\ NumCompleted(c) <= LenW(c)
        /\ Len(temps[c]) <= Cap(c)
        /\ Len(errs[c]) <= Cap(c)

\* events in both channels and events received, all at once
C10_Witness ==
    \E c \in Made :
        /\ LenW(c) = 3
        /\ temps[c] # <<>> /\ errs[c] # <<>> /\ recvd[c] # <<>>
        /\ NumCompleted(c) = 3

(* ------------------------------- C11 ----------------------------------- *)
\* the errors the caller has received from errs
RecvdErrs(c) == {k \in DOMAIN recvd[c] : recvd[c][k].ch = "errs"}

\* C11: a failed call has received one error in all, the last event it
\* received, and returns it: it is the error of the goroutine whose send on
\* errs was the first; the errors sent after it are all still in errs, where
\* nobody receives them.
C11_FirstFailureWins ==
    \A c \in Made :
        Failed(c) =>
            /\ RecvdErrs(c) = {Len(recvd[c])}
            /\ \E j \in DOMAIN task[c] : task[c][j].ord = 1 /\ ret[c].err = task[c][j].err
            /\ Len(errs[c]) = NumErrSent(c) - 1
            /\ \A j \in DOMAIN task[c] :
                 task[c][j].ord > 1 => errs[c][task[c][j].ord - 1] = task[c][j].err

\* two providers failed with different errors before the caller received
\* either: the one sent first is returned, the other one stays in errs
C11_Witness ==
    \E c \in Made :
        /\ Failed(c)
        /\ \E j, k \in DOMAIN task[c] :
            /\ task[c][j].ord = 1 /\ task[c][k].ord = 2
            /\ task[c][j].err # task[c][k].err
            /\ j > k
            /\ errs[c] = <<task[c][k].err>>

(* ------------------------------- C12 ----------------------------------- *)
\* the caller is at the select and both channels are empty
Waiting(c) == pc[c] = "loop" /\ i[c] < LenW(c) /\ temps[c] = <<>> /\ errs[c] = <<>>

\* C12: when every goroutine is scheduled and every query returns, a call
\* on N >= 1 providers returns; it returns once, the returned pair never
\* changing afterwards; and a call that has been made and has not returned
\* can take a step unless it is waiting at the select for the next event.
C12_Termination ==
    /\ \A c \in Calls : (pc[c] # "idle" /\ LenW(c) >= 1) ~> Done(c)
    /\ [][\A c \in Calls : Done(c) => (Done(c)' /\ ret'[c] = ret[c])]_vars
    /\ [](\A c \in Calls :
            (pc[c] \in {"launch", "loop"} /\ ~ENABLED Aggregator(c)) => Waiting(c))

\* a call on three providers has returned after every goroutine exited
C12_Witness ==
    \E c \in Made :
        /\ Done(c) /\ LenW(c) = 3
        /\ \A j \in 1..3 : task[c][j].pc = "exited"
        /\ temps[c] = <<>>

(* ------------------------------- C13 ----------------------------------- *)
\* the goroutines call c has started
Started(c) == {j \in DOMAIN task[c] : task[c][j].pc # "none"}

\* C13: a call queries each of its providers once, for the call's city: a
\* goroutine has queried once exactly when its query has returned, and never
\* twice, failure or not; the goroutines started are the first launched[c]
\* providers, N of them before the caller receives its first event and
\* ever after.
C13_EachProviderOnce ==
    \A c \in Made :
        /\ \A j \in DOMAIN task[c] :
            /\ task[c][j].asked = (IF Completed(c, j) THEN <<City(c)>> ELSE <<>>)
        /\ Started(c) = 1..launched[c]
        /\ launched[c] <= LenW(c)
        /\ (pc[c] \in {"loop", "done"} \/ recvd[c] # <<>>) => Started(c) = 1..LenW(c)

\* a failed call on three providers, each of them queried
C13_Witness ==
    \E c \in Made :
        /\ Failed(c) /\ LenW(c) = 3
        /\ \A j \in 1..3 : task[c][j].asked = <<City(c)>>
        /\ Cardinality({j \in 1..3 : TaskFailed(c, j)}) >= 2

(* ------------------------------- C14 ----------------------------------- *)
\* everything call c owns
CallState(c) == <<pc[c], w[c], launched[c], task[c], temps[c], errs[c],
                  sum[c], i[c], ret[c], recvd[c]>>

\* the values the goroutines of call c have sent on channel ch
OwnSent(c, ch, v) ==
    Cardinality({j \in DOMAIN task[c] :
        /\ task[c][j].sends = <<ch>>
        /\ (IF ch = "temps" THEN task[c][j].k ELSE task[c][j].err) = v})

\* the events of channel ch of call c of value v, buffered or received
Held(c, ch, v) ==
    Count(IF ch = "temps" THEN temps[c] ELSE errs[c], v)
      + Cardinality({k \in DOMAIN recvd[c] : recvd[c][k].ch = ch /\ recvd[c][k].v = v})

\* C14: with two calls interleaved, every step changes the state of one call
\* only; the events a call's channels hold or have delivered are the ones
\* its own goroutines sent; and the result of a call is made of the results
\* of its own providers: the error of one of them, or the mean of the
\* readings of all of them.
C14_CallsIsolated ==
    /\ [][\E c \in Calls : \A d \in Calls \ {c} : CallState(d)' = CallState(d)]_vars
    /\ [](\A c \in Calls :
            /\ \A v \in Vals : Held(c, "temps", v) = OwnSent(c, "temps", v)
            /\ \A e \in Errs : Held(c, "errs", e) = OwnSent(c, "errs", e)
            /\ Failed(c) =>
                 \E j \in DOMAIN task[c] : TaskFailed(c, j) /\ ret[c].err = task[c][j].err
            /\ (Succeeded(c) /\ LenW(c) >= 1) =>
                 /\ AllOk(c)
                 /\ SameBag(RecvdTemps(c), Readings(c))
                 /\ ret[c].value = FDiv(FSum(RecvdTemps(c)), LenW(c)))

\* call 1 returned the mean of its two readings although call 2, started
\* before call 1 returned its result, failed and left a reading in its temps
C14_Witness ==
    /\ Succeeded(1) /\ LenW(1) = 2
    /\ Failed(2) /\ LenW(2) = 2
    /\ Len(temps[2]) = 1
    /\ \A j \in 1..2 : task[2][j].pc = "exited"

(* ------------------------------- C16 ----------------------------------- *)
\* C16: a request served by weather has got one response: the status 500
\* with the message of the error the aggregation returned, and no
\* temperature, when it failed, the status 200 with the city and the mean
\* the aggregation returned when it succeeded; nothing is written before the
\* aggregation has returned.
C16_OneResponse ==
    \A c \in Calls :
        /\ hpc[c] = "served" =>
            /\ Done(c)
            /\ Failed(c) =>
                 resp[c] = << [status |-> StatusInternalServerError, error |-> ret[c].err] >>
            /\ Succeeded(c) =>
                 resp[c] = << [status |-> StatusOK, city |-> City(c), temp |-> ret[c].value] >>
        /\ hpc[c] # "served" => resp[c] = <<>>

\* a request answered 500 after two of the three readings had been summed
C16_Witness ==
    \E c \in Calls :
        /\ hpc[c] = "served" /\ Failed(c)
        /\ i[c] = 2
        /\ Len(resp[c]) = 1 /\ resp[c][1].status = StatusInternalServerError

(* ------------------------------- C15 ----------------------------------- *)
\* C15: a lookup of coordinates that failed, its request or the decoding of
\* its response, returns a non-nil error to its caller, so that
\* forecastIo.temperature returns an error and no reading, and the handler
\* coordinates answers with the status 500 and no coordinate.
C15_LookupFailureReported ==
    (lookup.pc \in {"returned", "fdecode", "done"} /\ lookup.cause # "no") =>
        /\ lookup.err # nil
        /\ (lookup.caller = "forecastIo" /\ lookup.pc = "done") => lookup.kerr # nil
        /\ (lookup.caller = "coordinates" /\ lookup.pc = "done") =>
             lookup.resp = << [status |-> StatusInternalServerError, error |-> lookup.err] >>

====
